---- MODULE Spec2Model ----
(***************************************************************************)
(* Model of bokehBorn/categorical.py: the input normaliser                 *)
(* _CategoricalPlotter.establish_variables (with _group_longform and       *)
(* infer_orient) and the estimator                                         *)
(* _CategoricalStatPlotter.estimate_statistic, run in that order by        *)
(* _BarPlotter.__init__.                                                   *)
(*                                                                         *)
(* Scalars are strings: the numerals "1".."4", the float nan ("nan"),       *)
(* the Python object None inside a vector ("None") and text labels.  A     *)
(* vector is a sequence of scalars; a pandas Series carries the default    *)
(* RangeIndex 0..n-1, so position i of the sequence is index label i-1.    *)
(***************************************************************************)
EXTENDS Integers, Sequences, FiniteSets, TLC

VARIABLES
    args,     \* the arguments establish_variables was called with
    est,      \* the estimator and ci estimate_statistic was called with
    self,     \* the plotter's attributes
    pc,       \* "new", "established", "estimated" or "raised"
    err,      \* the message of the exception that left __init__, or "None"
    calls,    \* helper routines establish_variables entered, in call order
    log,      \* calls estimate_statistic made to numeric routines, in order
    before    \* the earlier calls: how many, how the last one ended, and
              \* the plotter as the current call found it

vars == <<args, est, self, pc, err, calls, log, before>>

(***************************************************************************)
(* Bounds.                                                                 *)
(***************************************************************************)
MaxLen == 2
MaxRows == 3

(***************************************************************************)
(* Scalars.                                                                *)
(***************************************************************************)
NaN == "nan"
Numerals == {"1", "2", "3", "4"}
\* The integer a numeral denotes.
NumVal(c) == CASE c = "1" -> 1 [] c = "2" -> 2 [] c = "3" -> 3 [] c = "4" -> 4

\* pd.notnull is False for nan and for None.
IsNull(c) == c \in {"nan", "None"}
\* float(c) succeeds: numerals, nan and (inside an array) None.
Castable(c) == c \in Numerals \cup {"nan", "None"}
\* np.asarray(., np.float) on one element: None becomes nan.
AsFloat(c) == IF c = "None" THEN NaN ELSE c

CanCast(v) == \A i \in DOMAIN v : Castable(v[i])
AsFloatVec(v) == [i \in DOMAIN v |-> AsFloat(v[i])]

\* All sequences over S of length lo..hi.
SeqsOf(S, lo, hi) == UNION {[1..n -> S] : n \in lo..hi}

\* list(range(n)).
Range(n) == [i \in 1..n |-> i - 1]

RECURSIVE Concat(_)
\* ndarray.ravel of a 2-D array held as a sequence of rows (row-major).
Concat(rows) == IF rows = <<>> THEN <<>> ELSE Head(rows) \o Concat(Tail(rows))

\* Is e an element of sequence s.
InSeq(e, s) == \E i \in DOMAIN s : s[i] = e

(***************************************************************************)
(* Optional list-valued objects (order, hue_order, plot_hues, hue_names,   *)
(* plot_units): None or a list.                                            *)
(***************************************************************************)
NoneList == [isNone |-> TRUE, list |-> <<>>]
SomeList(l) == [isNone |-> FALSE, list |-> l]

(***************************************************************************)
(* The x / y / hue / units arguments.                                      *)
(***************************************************************************)
NoneVar == [kind |-> "None", name |-> "None", vals |-> <<>>]
Label(s) == [kind |-> "label", name |-> s, vals |-> <<>>]
ListVar(v) == [kind |-> "list", name |-> "None", vals |-> v]
Series(n, v) == [kind |-> "series", name |-> n, vals |-> v]
Categorical(n, v) == [kind |-> "categorical", name |-> n, vals |-> v]

IsNone(v) == v.kind = "None"
\* isinstance(input, string_types)
IsString(v) == v.kind = "label"
\* isinstance(vals, pd.Series)
IsSeries(v) == v.kind \in {"series", "categorical"}

(***************************************************************************)
(* The data argument.  items holds: a DataFrame's columns (parallel to     *)
(* names); a 2-D array's rows; the elements of a 1-D object array or of a  *)
(* nested list; or, when scalar is TRUE, the one vector of a 1-D numeric   *)
(* array or flat list.                                                     *)
(***************************************************************************)
NoneData ==
    [kind |-> "None", names |-> <<>>, items |-> <<>>, shape |-> <<>>,
     scalar |-> FALSE, colname |-> "None"]
Frame(names, cols, colname) ==
    [kind |-> "frame", names |-> names, items |-> cols, shape |-> <<>>,
     scalar |-> FALSE, colname |-> colname]
Array(shape, items, scalar) ==
    [kind |-> "array", names |-> <<>>, items |-> items, shape |-> shape,
     scalar |-> scalar, colname |-> "None"]
PyList(items, scalar) ==
    [kind |-> "list", names |-> <<>>, items |-> items, shape |-> <<>>,
     scalar |-> scalar, colname |-> "None"]

\* data[col] for a column label of the frame.
Column(data, col) ==
    data.items[CHOOSE i \in DOMAIN data.names : data.names[i] = col]
HasColumn(data, col) == InSeq(col, data.names)

(***************************************************************************)
(* Exceptions.                                                             *)
(***************************************************************************)
HueError == "Cannot use hue without x or y"
ReorderError == "Input data must be a pandas object to reorder"
DimError == "Input data can have no more than 2 dimensions"
InterpretError == "Could not interpret input"
NoNumericError == "Neither the x nor y variable appears to be numeric."
FloatError == "could not convert string to float"
KeyError == "KeyError"
IndexError == "IndexError"
GrouperLengthError == "Grouper and axis must be same length"
TypeError == "TypeError"
ZeroSizeError == "zero-size array to reduction operation"
MismatchError == "boolean index did not match indexed array"
ConcatError == "all the input array dimensions must match"

(***************************************************************************)
(* The outcome of establish_variables: the exception raised, or the nine   *)
(* values assigned to the plotter at lines 231-239.                        *)
(***************************************************************************)
Raise(msg, trace) ==
    [raised |-> msg, trace |-> trace,
     orient |-> "None", plot_data |-> <<>>, group_label |-> "None",
     value_label |-> "None", group_names |-> <<>>, plot_hues |-> NoneList,
     hue_title |-> "None", hue_names |-> NoneList, plot_units |-> NoneList]

Return(trace, orient, pd, gl, vl, gn, ph, ht, hn, pu) ==
    [raised |-> "None", trace |-> trace,
     orient |-> orient, plot_data |-> pd, group_label |-> gl,
     value_label |-> vl, group_names |-> gn,
     plot_hues |-> ph, hue_title |-> ht,
     hue_names |-> hn, plot_units |-> pu]

\* str(orient).startswith(c); orient is held as the characters of str(orient).
StartsWith(s, c) == Len(s) > 0 /\ s[1] = c

(***************************************************************************)
(* Option 1: wide-form input (x is None and y is None).                    *)
(***************************************************************************)
\* Mutant of NumericColumns: the try/except of lines 72-76 dropped, so
\* every column is kept.
NumericColumns_KeepAll(data) == data.names

\* Lines 68-76: the columns that survive astype(np.float), in table order.
NumericColumns(data) ==
    SelectSeq(data.names, LAMBDA col : CanCast(Column(data, col)))

\* Line 135.
WideOrient(orient) == IF StartsWith(orient, "h") THEN "h" ELSE "v"

\* Option 1a, lines 65-83.
WideFrame(a) ==
    LET order == IF a.order.isNone THEN NumericColumns(a.data)
                 ELSE a.order.list
    IN  IF \E i \in DOMAIN order : ~HasColumn(a.data, order[i])
        THEN Raise(KeyError, <<>>)                       \* data[order]
        ELSE IF \E i \in DOMAIN order : ~CanCast(Column(a.data, order[i]))
        THEN Raise(FloatError, <<>>)                     \* np.asarray(s, np.float)
        ELSE Return(<<>>, WideOrient(a.orient),
                    [i \in DOMAIN order |-> AsFloatVec(Column(a.data, order[i]))],
                    a.data.colname, "None", order,
                    NoneList, "None", NoneList, NoneList)

\* np.isscalar(data[0]) for a non-empty 1-D array or list: numbers and
\* text are scalars, None and nested sequences are not.
isscalar(data) == data.scalar /\ data.items[1][1] # "None"
\* list(data) for a 1-D array or a list: its elements; an element that is
\* not a sequence (None in first place) makes a group of its own.
ElementsOf(data) ==
    IF data.scalar THEN [i \in DOMAIN data.items[1] |-> <<data.items[1][i]>>]
    ELSE data.items

\* Mutant of RawGroups: a 2-D array is split into its rows, not its columns.
RawGroups_ByRow(data) ==
    LET ok(g) == [raised |-> "None", groups |-> g]
        bad(m) == [raised |-> m, groups |-> <<>>]
    IN  IF data.kind = "array" THEN
            IF Len(data.shape) = 1 THEN
                IF data.shape[1] = 0 THEN bad(IndexError)
                ELSE IF isscalar(data) THEN ok(<<data.items[1]>>)
                ELSE ok(ElementsOf(data))
            ELSE IF Len(data.shape) = 2 THEN
                LET nr == data.shape[1]
                    nc == data.shape[2]
                IN  IF nr = 1 \/ nc = 1 THEN ok(<<Concat(data.items)>>)
                    ELSE ok([r \in 1..nr |->
                                [i \in 1..nc |-> data.items[r][i]]])
            ELSE bad(DimError)
        ELSE IF data.kind = "None" THEN ok(<< <<>> >>)
        ELSE IF data.items = <<>> THEN bad(IndexError)
        ELSE IF isscalar(data) THEN ok(<<data.items[1]>>)
        ELSE ok(ElementsOf(data))

\* Lines 96-126: the list of vectors taken from an array, None or a list;
\* raised is the exception of that step, if any.
RawGroups(data) ==
    LET ok(g) == [raised |-> "None", groups |-> g]
        bad(m) == [raised |-> m, groups |-> <<>>]
    IN  IF data.kind = "array" THEN
            IF Len(data.shape) = 1 THEN
                IF data.shape[1] = 0 THEN bad(IndexError)    \* data[0]
                ELSE IF isscalar(data) THEN ok(<<data.items[1]>>)
                ELSE ok(ElementsOf(data))
            ELSE IF Len(data.shape) = 2 THEN
                LET nr == data.shape[1]
                    nc == data.shape[2]
                IN  IF nr = 1 \/ nc = 1 THEN ok(<<Concat(data.items)>>)
                    ELSE ok([i \in 1..nc |->
                                [r \in 1..nr |-> data.items[r][i]]])
            ELSE bad(DimError)
        ELSE IF data.kind = "None" THEN ok(<< <<>> >>)
        ELSE IF data.items = <<>> THEN bad(IndexError)       \* data[0]
        ELSE IF isscalar(data) THEN ok(<<data.items[1]>>)
        ELSE ok(ElementsOf(data))

\* Mutant of WideArray: the reorder check of lines 92-94 moved after the
\* shape checks.
WideArray_ShapeFirst(a) ==
    LET raw == RawGroups(a.data)
    IN  IF raw.raised # "None" THEN Raise(raw.raised, <<>>)
        ELSE IF ~a.order.isNone THEN Raise(ReorderError, <<>>)
        ELSE IF \E i \in DOMAIN raw.groups : ~CanCast(raw.groups[i])
        THEN Raise(FloatError, <<>>)
        ELSE Return(<<>>, WideOrient(a.orient),
                    [i \in DOMAIN raw.groups |-> AsFloatVec(raw.groups[i])],
                    "None", "None", Range(Len(raw.groups)),
                    NoneList, "None", NoneList, NoneList)

\* Option 1b, lines 89-132.
WideArray(a) ==
    IF ~a.order.isNone THEN Raise(ReorderError, <<>>)
    ELSE LET raw == RawGroups(a.data)
         IN  IF raw.raised # "None" THEN Raise(raw.raised, <<>>)
             ELSE IF \E i \in DOMAIN raw.groups : ~CanCast(raw.groups[i])
             THEN Raise(FloatError, <<>>)
             ELSE Return(<<>>, WideOrient(a.orient),
                         [i \in DOMAIN raw.groups |-> AsFloatVec(raw.groups[i])],
                         "None", "None", Range(Len(raw.groups)),
                         NoneList, "None", NoneList, NoneList)

\* Mutant of WideForm: the hue sanity check of lines 45-47 made after the
\* data has been converted.
WideForm_HueCheckLast(a) ==
    LET r == IF a.data.kind = "frame" THEN WideFrame(a) ELSE WideArray(a)
    IN  IF r.raised # "None" THEN r
        ELSE IF ~IsNone(a.hue) THEN Raise(HueError, <<>>)
        ELSE r

\* Lines 42-135.
WideForm(a) ==
    IF ~IsNone(a.hue) THEN Raise(HueError, <<>>)
    ELSE IF a.data.kind = "frame" THEN WideFrame(a)
    ELSE WideArray(a)

(***************************************************************************)
(* Option 2: long-form input (x or y is given).                            *)
(***************************************************************************)
\* data.get(v, v), lines 145-148: a label that is a column of the frame
\* becomes that column, a Series named after it; anything else is kept.
Resolve(data, v) ==
    IF IsString(v) /\ HasColumn(data, v.name)
    THEN Series(v.name, Column(data, v.name))
    ELSE v

\* is_categorical, lines 268-277.
is_categorical(s) == s.kind = "categorical"
\* is_not_numeric, lines 279-284.
is_not_numeric(s) == ~CanCast(s.vals)

\* Lines 264-307.  raised is the exception, orient the value returned.
infer_orient(x, y, orient) ==
    LET ret(o) == [raised |-> "None", orient |-> o]
        no_numeric == [raised |-> NoNumericError, orient |-> "None"]
    IN  IF StartsWith(orient, "v") THEN ret("v")
        ELSE IF StartsWith(orient, "h") THEN ret("h")
        ELSE IF IsNone(x) THEN ret("v")
        ELSE IF IsNone(y) THEN ret("h")
        ELSE IF is_categorical(y) THEN
            IF is_categorical(x) THEN no_numeric ELSE ret("h")
        ELSE IF is_not_numeric(y) THEN
            IF is_not_numeric(x) THEN no_numeric ELSE ret("h")
        ELSE ret("v")

RECURSIVE Unique(_, _)
\* The distinct elements of v in first-seen order, after those in seen.
Unique(v, seen) ==
    IF v = <<>> THEN <<>>
    ELSE IF Head(v) \in seen THEN Unique(Tail(v), seen)
    ELSE <<Head(v)>> \o Unique(Tail(v), seen \cup {Head(v)})

\* utils.categorical_order: an explicit order wins, else first-seen order.
categorical_order(values, order) ==
    IF order.isNone THEN Unique(values.vals, {}) ELSE order.list

\* The key vals.groupby(grouper) pairs with row i of vals: a Series grouper
\* is reindexed to the index of vals, so a row past its end has key nan.
KeyAt(grouper, i) ==
    IF i <= Len(grouper.vals) THEN grouper.vals[i] ELSE NaN

RECURSIVE Gather(_, _, _)
\* The elements of v at the positions in keep, from position i on, in order.
Gather(v, keep, i) ==
    IF i > Len(v) THEN <<>>
    ELSE (IF i \in keep THEN <<v[i]>> ELSE <<>>) \o Gather(v, keep, i + 1)

\* Mutant of get_group: the first row of vals is skipped.
get_group_SkipFirst(vals, grouper, g) ==
    Gather(vals.vals,
           {i \in DOMAIN vals.vals :
                ~IsNull(KeyAt(grouper, i)) /\ KeyAt(grouper, i) = g},
           2)

\* grouped_vals.get_group(g), lines 251-254 (KeyError gives the empty array):
\* the rows of vals whose key is g; rows with a null key are in no group.
get_group(vals, grouper, g) ==
    Gather(vals.vals,
           {i \in DOMAIN vals.vals :
                ~IsNull(KeyAt(grouper, i)) /\ KeyAt(grouper, i) = g},
           1)

\* Lines 241-260.  vals.groupby(grouper) raises for a grouper that is no
\* Series and differs in length from vals.
_group_longform(vals, grouper, order) ==
    IF ~IsSeries(grouper) /\ Len(grouper.vals) # Len(vals.vals)
    THEN [raised |-> GrouperLengthError, out_data |-> <<>>, label |-> "None"]
    ELSE [raised |-> "None",
          out_data |-> [k \in DOMAIN order |-> get_group(vals, grouper, order[k])],
          label |-> IF IsSeries(vals) THEN vals.name ELSE "None"]

\* Mutant of LongSingle: plot_hues and hue_names are set to empty lists,
\* not to None.
LongSingle_EmptyHues(x, y, orient, trace) ==
    LET vals == IF IsNone(x) THEN y ELSE x
    IN  Return(trace, orient, <<vals.vals>>, "None",
               IF IsSeries(vals) THEN vals.name ELSE "None",
               <<>>, SomeList(<<>>), "None", SomeList(<<>>), NoneList)

\* Option 2a, lines 162-183: a single vector.
LongSingle(x, y, orient, trace) ==
    LET vals == IF IsNone(x) THEN y ELSE x
    IN  Return(trace, orient, <<vals.vals>>, "None",
               IF IsSeries(vals) THEN vals.name ELSE "None",
               <<>>, NoneList, "None", NoneList, NoneList)

\* Option 2b, lines 188-227: values grouped by the other variable.
LongGrouped(x, y, hue, units, orient, order, hue_order, trace) ==
    LET vals == IF orient = "v" THEN y ELSE x
        groups == IF orient = "v" THEN x ELSE y
        group_label == IF IsSeries(groups) THEN groups.name ELSE "None"
        group_names == categorical_order(groups, order)
        t1 == trace \o <<"categorical_order", "_group_longform">>
        data == _group_longform(vals, groups, group_names)
        t2 == IF IsNone(hue) THEN t1
              ELSE t1 \o <<"categorical_order", "_group_longform">>
        hues == _group_longform(hue, groups, group_names)
        t3 == IF IsNone(units) THEN t2 ELSE t2 \o <<"_group_longform">>
        unit == _group_longform(units, groups, group_names)
    IN  IF data.raised # "None" THEN Raise(data.raised, t1)
        ELSE IF ~IsNone(hue) /\ hues.raised # "None" THEN Raise(hues.raised, t2)
        ELSE IF ~IsNone(units) /\ unit.raised # "None" THEN Raise(unit.raised, t3)
        ELSE Return(t3, orient, data.out_data, group_label, data.label,
                    group_names,
                    IF IsNone(hue) THEN NoneList ELSE SomeList(hues.out_data),
                    IF IsNone(hue) THEN "None" ELSE hues.label,
                    IF IsNone(hue) THEN NoneList
                    ELSE SomeList(categorical_order(hue, hue_order)),
                    IF IsNone(units) THEN NoneList ELSE SomeList(unit.out_data))

\* Mutant of LongForm: the inputs are validated (lines 150-154) only after
\* the orientation has been inferred.
LongForm_ValidateLate(a) ==
    LET has == a.data.kind = "frame"
        x == IF has THEN Resolve(a.data, a.x) ELSE a.x
        y == IF has THEN Resolve(a.data, a.y) ELSE a.y
        hue == IF has THEN Resolve(a.data, a.hue) ELSE a.hue
        units == IF has THEN Resolve(a.data, a.units) ELSE a.units
        o == infer_orient(x, y, a.orient)
    IN  IF o.raised # "None" THEN Raise(o.raised, <<"infer_orient">>)
        ELSE IF \E v \in {x, y, hue, units} : IsString(v)
        THEN Raise(InterpretError, <<"infer_orient">>)
        ELSE IF IsNone(x) \/ IsNone(y)
        THEN LongSingle(x, y, o.orient, <<"infer_orient">>)
        ELSE LongGrouped(x, y, hue, units, o.orient, a.order, a.hue_order,
                         <<"infer_orient">>)

\* Lines 141-227.  data is None or a table (it is looked up with data.get).
LongForm(a) ==
    LET has == a.data.kind = "frame"
        x == IF has THEN Resolve(a.data, a.x) ELSE a.x
        y == IF has THEN Resolve(a.data, a.y) ELSE a.y
        hue == IF has THEN Resolve(a.data, a.hue) ELSE a.hue
        units == IF has THEN Resolve(a.data, a.units) ELSE a.units
        o == infer_orient(x, y, a.orient)
    IN  IF \E v \in {x, y, hue, units} : IsString(v)
        THEN Raise(InterpretError, <<>>)
        ELSE IF o.raised # "None" THEN Raise(o.raised, <<"infer_orient">>)
        ELSE IF IsNone(x) \/ IsNone(y)
        THEN LongSingle(x, y, o.orient, <<"infer_orient">>)
        ELSE LongGrouped(x, y, hue, units, o.orient, a.order, a.hue_order,
                         <<"infer_orient">>)

\* Lines 35-239.
establish_variables(a) ==
    IF IsNone(a.x) /\ IsNone(a.y) THEN WideForm(a) ELSE LongForm(a)

(***************************************************************************)
(* estimate_statistic, lines 395-498.                                      *)
(***************************************************************************)
NaNPair == <<NaN, NaN>>
\* (estimate - sd, estimate + sd), line 437 / 487, and utils.ci(boots, ci):
\* real-valued results of np.std and of the bootstrap, kept symbolic.
SdBand == <<"estimate - sd", "estimate + sd">>
BootBand == <<"ci low", "ci high">>

\* utils.remove_na: the non-null elements, in order.
remove_na(v) == SelectSeq(v, LAMBDA c : ~IsNull(c))

\* One entry of log.
Call(fn, data, units) == [fn |-> fn, data |-> data, units |-> units]

RECURSIVE Extreme(_, _)
\* The largest (hi) or smallest numeral of a non-empty vector of numerals.
Extreme(v, hi) ==
    IF Len(v) = 1 THEN v[1]
    ELSE LET r == Extreme(Tail(v), hi)
         IN  IF (hi /\ NumVal(v[1]) >= NumVal(r)) \/ (~hi /\ NumVal(v[1]) <= NumVal(r))
             THEN v[1] ELSE r

\* estimator(stat_data) for the estimators np.amin and np.amax: a
\* reduction raises on an empty array and on an array of text.
Estimator(estimator, v) ==
    IF v = <<>> THEN [raised |-> ZeroSizeError, value |-> NaN]
    ELSE IF \E i \in DOMAIN v : v[i] \notin Numerals
    THEN [raised |-> TypeError, value |-> NaN]
    ELSE [raised |-> "None", value |-> Extreme(v, estimator = "amax")]

\* Lines 411-418 and 452-468: the vector of one cell after filtering, with
\* its units.  skip is the empty-hue shortcut of lines 452-456.  hues and
\* units are the group's hue and unit vectors (None when absent).
Filtered(group_data, hues, hue_level, units) ==
    LET res(sd, ud) == [raised |-> "None", skip |-> FALSE,
                        stat_data |-> sd, unit_data |-> ud]
        bad(m) == [raised |-> m, skip |-> FALSE,
                   stat_data |-> <<>>, unit_data |-> NoneList]
        n == Len(group_data)
        \* pd.notnull(np.c_[group_data, unit_data]).all(axis=1)
        have == {i \in 1..n : ~IsNull(group_data[i]) /\ ~IsNull(units.list[i])}
        \* hue_mask, broadcast over n rows when it has a single element
        mask == {i \in 1..n :
                    hues.list[IF Len(hues.list) = 1 THEN 1 ELSE i] = hue_level}
    IN  IF hues.isNone THEN
            IF units.isNone THEN res(remove_na(group_data), NoneList)
            ELSE IF Len(units.list) # n THEN bad(ConcatError)
            ELSE res(Gather(group_data, have, 1),
                     SomeList(Gather(units.list, have, 1)))
        ELSE IF hues.list = <<>> THEN
            [raised |-> "None", skip |-> TRUE,
             stat_data |-> <<>>, unit_data |-> NoneList]
        ELSE IF units.isNone THEN
            IF Len(hues.list) # n THEN bad(MismatchError)
            ELSE res(remove_na(Gather(group_data, mask, 1)), NoneList)
        ELSE IF Len(units.list) # n THEN bad(ConcatError)
        ELSE IF Len(hues.list) # n /\ Len(hues.list) # 1 THEN bad(ConcatError)
        ELSE res(Gather(group_data, mask \cap have, 1),
                 SomeList(Gather(units.list, mask \cap have, 1)))

\* Mutant of Estimate: the emptiness test of lines 421 / 471 dropped, so
\* the estimator is called on every vector.
Estimate_NoEmptyGuard(stat_data, unit_data, estimator, ci) ==
    LET e == Estimator(estimator, stat_data)
        elog == <<Call("estimator", stat_data, NoneList)>>
    IN  IF e.raised # "None" THEN
            [raised |-> e.raised, stat |-> NaN, conf |-> <<>>, log |-> elog]
        ELSE IF ci = "None" THEN
            [raised |-> "None", stat |-> e.value, conf |-> <<>>, log |-> elog]
        ELSE IF Len(stat_data) < 2 THEN
            [raised |-> "None", stat |-> e.value, conf |-> <<NaNPair>>,
             log |-> elog]
        ELSE IF ci = "sd" THEN
            [raised |-> "None", stat |-> e.value, conf |-> <<SdBand>>,
             log |-> elog \o elog \o <<Call("np.std", stat_data, NoneList)>>]
        ELSE
            [raised |-> "None", stat |-> e.value, conf |-> <<BootBand>>,
             log |-> elog \o <<Call("bootstrap", stat_data, unit_data)>>]

\* Mutant of Estimate: the size test of lines 429 / 479 is "< 1", so a
\* single point gets a computed interval.
Estimate_SizeBelowOne(stat_data, unit_data, estimator, ci) ==
    LET e == Estimator(estimator, stat_data)
        elog == <<Call("estimator", stat_data, NoneList)>>
    IN  IF stat_data = <<>> THEN
            [raised |-> "None", stat |-> NaN,
             conf |-> IF ci # "None" THEN <<NaNPair>> ELSE <<>>, log |-> <<>>]
        ELSE IF e.raised # "None" THEN
            [raised |-> e.raised, stat |-> NaN, conf |-> <<>>, log |-> elog]
        ELSE IF ci = "None" THEN
            [raised |-> "None", stat |-> e.value, conf |-> <<>>, log |-> elog]
        ELSE IF ci = "sd" THEN
            [raised |-> "None", stat |-> e.value, conf |-> <<SdBand>>,
             log |-> elog \o elog \o <<Call("np.std", stat_data, NoneList)>>]
        ELSE
            [raised |-> "None", stat |-> e.value, conf |-> <<BootBand>>,
             log |-> elog \o <<Call("bootstrap", stat_data, unit_data)>>]

\* Lines 420-444 and 470-494 on a filtered vector: the statistic entry, the
\* confint entries appended (none when ci is None) and the calls made.
Estimate(stat_data, unit_data, estimator, ci) ==
    LET e == Estimator(estimator, stat_data)
        elog == <<Call("estimator", stat_data, NoneList)>>
    IN  IF stat_data = <<>> THEN
            [raised |-> "None", stat |-> NaN,
             conf |-> IF ci # "None" THEN <<NaNPair>> ELSE <<>>, log |-> <<>>]
        ELSE IF e.raised # "None" THEN
            [raised |-> e.raised, stat |-> NaN, conf |-> <<>>, log |-> elog]
        ELSE IF ci = "None" THEN
            [raised |-> "None", stat |-> e.value, conf |-> <<>>, log |-> elog]
        ELSE IF Len(stat_data) < 2 THEN
            [raised |-> "None", stat |-> e.value, conf |-> <<NaNPair>>,
             log |-> elog]
        ELSE IF ci = "sd" THEN
            [raised |-> "None", stat |-> e.value, conf |-> <<SdBand>>,
             log |-> elog \o elog \o <<Call("np.std", stat_data, NoneList)>>]
        ELSE
            [raised |-> "None", stat |-> e.value, conf |-> <<BootBand>>,
             log |-> elog \o <<Call("bootstrap", stat_data, unit_data)>>]

\* Mutant of Cell: the empty-hue shortcut of lines 452-456 appends no
\* confidence interval.
Cell_SkipNoConfint(group_data, hues, hue_level, units, estimator, ci) ==
    LET f == Filtered(group_data, hues, hue_level, units)
    IN  IF f.raised # "None" THEN
            [raised |-> f.raised, stat |-> NaN, conf |-> <<>>, log |-> <<>>]
        ELSE IF f.skip THEN
            [raised |-> "None", stat |-> NaN, conf |-> <<>>, log |-> <<>>]
        ELSE Estimate(f.stat_data, f.unit_data, estimator, ci)

\* One pass of the loop body for a group (hues None) or a (group, hue) cell.
Cell(group_data, hues, hue_level, units, estimator, ci) ==
    LET f == Filtered(group_data, hues, hue_level, units)
    IN  IF f.raised # "None" THEN
            [raised |-> f.raised, stat |-> NaN, conf |-> <<>>, log |-> <<>>]
        ELSE IF f.skip THEN
            [raised |-> "None", stat |-> NaN,
             conf |-> IF ci # "None" THEN <<NaNPair>> ELSE <<>>, log |-> <<>>]
        ELSE Estimate(f.stat_data, f.unit_data, estimator, ci)

RECURSIVE HueCells(_, _, _, _, _, _, _)
\* Lines 450-494: the cells of one group from hue level j on.
HueCells(group_data, hues, units, hue_names, j, estimator, ci) ==
    IF j > Len(hue_names)
    THEN [raised |-> "None", stat |-> <<>>, conf |-> <<>>, log |-> <<>>]
    ELSE LET c == Cell(group_data, hues, hue_names[j], units, estimator, ci)
             rest == HueCells(group_data, hues, units, hue_names, j + 1,
                              estimator, ci)
         IN  IF c.raised # "None"
             THEN [raised |-> c.raised, stat |-> <<>>, conf |-> <<>>,
                   log |-> c.log]
             ELSE [raised |-> rest.raised, stat |-> <<c.stat>> \o rest.stat,
                   conf |-> c.conf \o rest.conf, log |-> c.log \o rest.log]

RECURSIVE GroupLoop(_, _, _, _)
\* Lines 404-494: the groups from i on.  Without hue levels each group adds
\* one entry to statistic (and confint); with hue levels it adds one row.
GroupLoop(s, i, estimator, ci) ==
    IF i > Len(s.plot_data)
    THEN [raised |-> "None", stat |-> <<>>, conf |-> <<>>, log |-> <<>>]
    ELSE LET units == IF s.plot_units.isNone THEN NoneList
                      ELSE SomeList(s.plot_units.list[i])
             flat == s.plot_hues.isNone
             g == IF flat
                  THEN Cell(s.plot_data[i], NoneList, "None", units,
                            estimator, ci)
                  ELSE HueCells(s.plot_data[i], SomeList(s.plot_hues.list[i]),
                                units, s.hue_names.list, 1, estimator, ci)
             rest == GroupLoop(s, i + 1, estimator, ci)
         IN  IF g.raised # "None"
             THEN [raised |-> g.raised, stat |-> <<>>, conf |-> <<>>,
                   log |-> g.log]
             ELSE [raised |-> rest.raised,
                   stat |-> (IF flat THEN <<g.stat>> ELSE << g.stat >>) \o rest.stat,
                   conf |-> (IF flat THEN g.conf ELSE << g.conf >>) \o rest.conf,
                   log |-> g.log \o rest.log]

\* Lines 395-498: statistic and confint as saved at lines 497-498.
estimate_statistic(s, estimator, ci) == GroupLoop(s, 1, estimator, ci)

(***************************************************************************)
(* Argument values shared by the input families.                           *)
(***************************************************************************)
\* str(orient) for orient = None, "v", "h" and "horizontal".
StrNone == <<"N", "o", "n", "e">>
Orients == {StrNone, <<"v">>, <<"h">>,
            <<"h", "o", "r", "i", "z", "o", "n", "t", "a", "l">>}
Estimators == {"amin", "amax"}
CIs == {"None", "sd", "95"}

(***************************************************************************)
(* The plotter object and the two steps of _BarPlotter.__init__.           *)
(***************************************************************************)
PlotSpecAttrs ==
    {"orient", "plot_data", "group_label", "value_label", "group_names",
     "plot_hues", "hue_title", "hue_names", "plot_units"}

\* A plotter before __init__ has assigned anything; attrs is the set of
\* attribute names assigned so far.
NewPlotter ==
    [attrs |-> {}, orient |-> "None", plot_data |-> <<>>,
     group_label |-> "None", value_label |-> "None", group_names |-> <<>>,
     plot_hues |-> NoneList, hue_title |-> "None", hue_names |-> NoneList,
     plot_units |-> NoneList, statistic |-> <<>>, confint |-> <<>>]

\* Mutant of EstablishVariables: the optional attributes (plot_hues,
\* hue_title, hue_names, plot_units) are assigned only when they are not
\* None, so those of an earlier call survive.
EstablishVariables_KeepOptional ==
    /\ pc = "new"
    /\ LET r == establish_variables(args)
       IN  /\ calls' = r.trace
           /\ IF r.raised # "None"
              THEN /\ pc' = "raised"
                   /\ err' = r.raised
                   /\ UNCHANGED self
              ELSE /\ pc' = "established"
                   /\ self' = [self EXCEPT
                                 !.attrs = @ \cup PlotSpecAttrs,
                                 !.orient = r.orient,
                                 !.plot_data = r.plot_data,
                                 !.group_label = r.group_label,
                                 !.value_label = r.value_label,
                                 !.group_names = r.group_names,
                                 !.plot_hues = IF r.plot_hues.isNone THEN @ ELSE r.plot_hues,
                                 !.hue_title = IF r.hue_title = "None" THEN @ ELSE r.hue_title,
                                 !.hue_names = IF r.hue_names.isNone THEN @ ELSE r.hue_names,
                                 !.plot_units = IF r.plot_units.isNone THEN @ ELSE r.plot_units]
                   /\ UNCHANGED err
    /\ UNCHANGED <<args, est, log, before>>

\* Lines 537-538 with lines 229-239.
EstablishVariables ==
    /\ pc = "new"
    /\ LET r == establish_variables(args)
       IN  /\ calls' = r.trace
           /\ IF r.raised # "None"
              THEN /\ pc' = "raised"
                   /\ err' = r.raised
                   /\ UNCHANGED self
              ELSE /\ pc' = "established"
                   /\ self' = [self EXCEPT
                                 !.attrs = @ \cup PlotSpecAttrs,
                                 !.orient = r.orient,
                                 !.plot_data = r.plot_data,
                                 !.group_label = r.group_label,
                                 !.value_label = r.value_label,
                                 !.group_names = r.group_names,
                                 !.plot_hues = r.plot_hues,
                                 !.hue_title = r.hue_title,
                                 !.hue_names = r.hue_names,
                                 !.plot_units = r.plot_units]
                   /\ UNCHANGED err
    /\ UNCHANGED <<args, est, log, before>>

\* Line 540 with lines 496-498.
EstimateStatistic ==
    /\ pc = "established"
    /\ \E estimator \in Estimators, ci \in CIs :
       LET r == estimate_statistic(self, estimator, ci)
       IN  /\ est' = [estimator |-> estimator, ci |-> ci]
           /\ log' = r.log
           /\ IF r.raised # "None"
              THEN /\ pc' = "raised"
                   /\ err' = r.raised
                   /\ UNCHANGED self
              ELSE /\ pc' = "estimated"
                   /\ self' = [self EXCEPT
                                 !.attrs = @ \cup {"statistic", "confint"},
                                 !.statistic = r.stat,
                                 !.confint = r.conf]
                   /\ UNCHANGED err
    /\ UNCHANGED <<args, calls, before>>

Next == EstablishVariables \/ EstimateStatistic

\* No call was made before this one.
NoCall == [n |-> 0, pc |-> "None", self |-> NewPlotter]

\* The state when __init__ is entered with arguments drawn from inputs.
Start(inputs) ==
    /\ args \in inputs
    /\ est = [estimator |-> "None", ci |-> "None"]
    /\ self = NewPlotter
    /\ pc = "new"
    /\ err = "None"
    /\ calls = <<>>
    /\ log = <<>>
    /\ before = NoCall

(***************************************************************************)
(* Arguments.                                                              *)
(***************************************************************************)
\* Wide-form calls: x and y are None.
WideCells == {"1", "None", "a"}
Elements == SeqsOf({"1", "a"}, 1, MaxLen)
WideFrames ==
    {Frame(<<"A", "B">>, <<a, b>>, cn) :
        a \in [1..MaxLen -> WideCells], b \in [1..MaxLen -> WideCells],
        cn \in {"None"}}
    \cup {Frame(<<"A">>, <<a>>, "cols") : a \in SeqsOf(WideCells, 0, 1)}
    \cup {Frame(<<>>, <<>>, "None")}
WideArrays ==
    {Array(<<Len(v)>>, <<v>>, TRUE) : v \in SeqsOf(WideCells, 0, MaxLen)}
    \cup {Array(<<Len(e)>>, e, FALSE) : e \in SeqsOf(Elements, 1, 2)}
    \cup UNION {{Array(<<nr, nc>>, m, TRUE) :
                    m \in [1..nr -> [1..nc -> {"1", "2"}]]} :
                nr \in 1..MaxLen, nc \in 1..MaxLen}
    \cup {Array(<<1, 1, 1>>, << <<"1">> >>, TRUE),
          Array(<<2, 1, 2>>, << <<"1", "2">>, <<"1", "2">> >>, TRUE)}
WideLists ==
    {PyList(<<v>>, TRUE) : v \in SeqsOf(WideCells, 1, MaxLen)}
    \cup {PyList(e, FALSE) : e \in SeqsOf(Elements, 0, 2)}
WideData == {NoneData} \cup WideFrames \cup WideArrays \cup WideLists
WideOrders ==
    {NoneList, SomeList(<<"B", "A">>), SomeList(<<"A">>),
     SomeList(<<"A", "Z">>)}

WideInputs ==
    [x : {NoneVar}, y : {NoneVar},
     hue : {NoneVar, Label("h")}, units : {NoneVar},
     data : WideData, orient : {StrNone, <<"v">>, <<"h">>},
     order : WideOrders, hue_order : {NoneList}]

InitWide == Start(WideInputs)
SpecWide == InitWide /\ [][Next]_vars

\* Long-form calls that exercise column lookup and orientation: x and y
\* are None, a column label, a label of no column, or a vector of numbers
\* or text (a list, a Series or a categorical Series).
LongFrame ==
    Frame(<<"g", "v", "h", "u">>,
          <<[i \in 1..MaxLen |-> IF i = 1 THEN "a" ELSE "b"],
            [i \in 1..MaxLen |-> IF i = 1 THEN "1" ELSE "2"],
            [i \in 1..MaxLen |-> "m"],
            [i \in 1..MaxLen |-> "u"]>>, "None")
XYVars ==
    {NoneVar, Label("g"), Label("v"), Label("zz")}
    \cup UNION {{ListVar(v), Series("s", v), Categorical("c", v)} :
                    v \in [1..MaxLen -> {"1", "a"}]}
OrientInputs ==
    {a \in [x : XYVars, y : XYVars,
            hue : {NoneVar, Label("h"), Label("zz"), ListVar([i \in 1..MaxLen |-> "m"])},
            units : {NoneVar, Label("zz"), ListVar([i \in 1..MaxLen |-> "u"])},
            data : {NoneData, LongFrame}, orient : Orients,
            order : {NoneList}, hue_order : {NoneList}] :
        ~(IsNone(a.x) /\ IsNone(a.y))}

InitOrient == Start(OrientInputs)
SpecOrient == InitOrient /\ [][Next]_vars

\* Long-form calls that group one vector by another: x holds the group
\* keys, y the values (row i holds the numeral of i), hue and units are
\* optional vectors; every vector has its own length.
Digit(i) == <<"1", "2", "3", "4">>[i]
Ids(n) == [i \in 1..n |-> Digit(i)]
GroupInputs ==
    [x : UNION {{ListVar(g), Series("g", g)} : g \in SeqsOf({"a", "b"}, 0, MaxRows)},
     y : {Series("v", Ids(n)) : n \in 0..MaxRows},
     hue : {NoneVar} \cup {ListVar([i \in 1..n |-> "m"]) : n \in 0..MaxRows},
     units : {NoneVar} \cup {ListVar([i \in 1..n |-> "u"]) : n \in 0..MaxRows},
     data : {NoneData}, orient : {StrNone, <<"h">>},
     order : {NoneList, SomeList(<<"b", "a">>), SomeList(<<"a", "c">>)},
     hue_order : {NoneList}]

InitLong == Start(GroupInputs)
SpecLong == InitLong /\ [][Next]_vars

\* Calls whose statistics are estimated: x holds the group keys and y the
\* values (row i holds the numeral of i, or nan in the first two rows),
\* with optional hue and
\* units vectors of the same length, an order that names an absent group
\* and a hue_order that names an absent level; calls whose hue or units
\* vector is one row short; and the wide-form call with data = None.
NumOrNaN(n) == {[i \in 1..n |-> IF i \in S THEN NaN ELSE Digit(i)] : S \in SUBSET (1..2)}
AlignedInputs(n) ==
    [x : {Series("g", g) : g \in [1..n -> {"a", "b"}]},
     y : {Series("v", v) : v \in NumOrNaN(n)},
     hue : {NoneVar} \cup {Series("h", h) : h \in [1..n -> {"m", "n"}]},
     units : {NoneVar} \cup {Series("u", [i \in 1..n |-> IF i = m THEN NaN ELSE "u"]) : m \in 0..1},
     data : {NoneData}, orient : {StrNone},
     order : {NoneList, SomeList(<<"b", "c", "a">>)},
     hue_order : {NoneList, SomeList(<<"n", "k", "m">>)}]
ShortInputs(n) ==
    {a \in [x : {Series("g", [i \in 1..n |-> "a"])},
            y : {Series("v", Ids(n))},
            hue : {NoneVar, ListVar([i \in 1..(n - 1) |-> "m"])},
            units : {NoneVar, ListVar([i \in 1..(n - 1) |-> "u"])},
            data : {NoneData}, orient : {StrNone},
            order : {NoneList}, hue_order : {NoneList}] :
        ~(IsNone(a.hue) /\ IsNone(a.units))}
WideNone ==
    [x |-> NoneVar, y |-> NoneVar, hue |-> NoneVar, units |-> NoneVar,
     data |-> NoneData, orient |-> StrNone, order |-> NoneList,
     hue_order |-> NoneList]
EstInputs ==
    UNION {AlignedInputs(n) : n \in 0..MaxRows}
    \cup UNION {ShortInputs(n) : n \in 1..MaxRows}
    \cup {WideNone}

InitEst == Start(EstInputs)
SpecEst == InitEst /\ [][Next]_vars

\* Every call of the families above.
Init == Start(WideInputs \cup OrientInputs \cup GroupInputs \cup EstInputs)
Spec == Init /\ [][Next]_vars

(***************************************************************************)
(* Calls made one after another.                                           *)
(***************************************************************************)
\* How many calls may precede the one observed.
MaxCalls == 2

\* Calls that take different paths through establish_variables: hue
\* without x or y (raises), a wide-form table, grouped vectors with hue
\* and units, one with a given order and hue_order and no units, and a
\* single vector.
AgainInputs ==
    {[WideNone EXCEPT !.hue = Label("h")],
     [WideNone EXCEPT !.data = Frame(<<"A", "B">>, << <<"1", "2">>, <<"a", "b">> >>, "cols")],
     [WideNone EXCEPT !.x = Series("g", <<"a", "b">>), !.y = Series("v", <<"1", "2">>),
                      !.hue = Series("h", <<"m", "n">>), !.units = Series("u", <<"u", "u">>)],
     [WideNone EXCEPT !.x = Series("k", <<"b", "b">>), !.y = Series("w", <<"3", "4">>),
                      !.hue = Series("j", <<"n", "n">>),
                      !.order = SomeList(<<"b", "a">>), !.hue_order = SomeList(<<"n">>)],
     [WideNone EXCEPT !.x = ListVar(<<"1", "2">>), !.hue = ListVar(<<"m", "n">>)]}

\* The caller calls again once a call has ended: establish_variables on
\* the same plotter, or barplot, which builds another plotter.
CallAgain ==
    /\ pc \in {"established", "estimated", "raised"}
    /\ before.n < MaxCalls
    /\ \E a \in AgainInputs, another \in BOOLEAN :
          /\ args' = a
          /\ self' = IF another THEN NewPlotter ELSE self
          /\ before' = [n |-> before.n + 1, pc |-> pc, self |-> self']
    /\ pc' = "new"
    /\ err' = "None"
    /\ est' = [estimator |-> "None", ci |-> "None"]
    /\ calls' = <<>>
    /\ log' = <<>>

NextAgain == EstablishVariables \/ EstimateStatistic \/ CallAgain
InitAgain == Start(AgainInputs)
SpecAgain == InitAgain /\ [][NextAgain]_vars

(***************************************************************************)
(* Properties of the wide-form path.                                       *)
(***************************************************************************)
IsWide == IsNone(args.x) /\ IsNone(args.y)
Returned == pc \in {"established", "estimated"} \/ (pc = "raised" /\ self.attrs # {})
\* establish_variables raised: nothing was assigned to the plotter.
EstablishRaised == pc = "raised" /\ self.attrs = {}
\* A float: a numeral or nan.
IsFloat(c) == c \in Numerals \cup {NaN}
AllFloat(plot_data) ==
    \A i \in DOMAIN plot_data : \A k \in DOMAIN plot_data[i] : IsFloat(plot_data[i][k])
\* The column labels of the frame whose cells all pass float().
CastableLabels(data) ==
    {data.names[i] : i \in {k \in DOMAIN data.names : CanCast(data.items[k])}}

C5_HueWithoutXY ==
    (IsWide /\ ~IsNone(args.hue) /\ pc # "new")
        => /\ pc = "raised"
           /\ err = HueError
           /\ self = NewPlotter

\* The hue error won over the errors the data and order would raise.
C5_Witness ==
    /\ IsWide /\ ~IsNone(args.hue)
    /\ pc = "raised" /\ err = HueError
    /\ args.data.kind = "array" /\ Len(args.data.shape) = 3
    /\ ~args.order.isNone

\* C6 as stated: in wide-form mode, data that is no table together with an
\* order always raises the reorder error.
C6_AsStated ==
    (IsWide /\ args.data.kind # "frame" /\ ~args.order.isNone /\ pc # "new")
        => pc = "raised" /\ err = ReorderError

\* C6 amended: in wide-form mode with hue absent, data that is no table
\* together with an order raises the reorder error and assigns nothing;
\* the check precedes the shape checks and the data = None path.
C6_ReorderNeedsTable ==
    (IsWide /\ IsNone(args.hue) /\ args.data.kind # "frame"
            /\ ~args.order.isNone /\ pc # "new")
        => /\ pc = "raised"
           /\ err = ReorderError
           /\ self = NewPlotter

\* The reorder error won over the more-than-two-dimensions error.
C6_Witness ==
    /\ IsWide /\ IsNone(args.hue) /\ ~args.order.isNone
    /\ args.data.kind = "array" /\ Len(args.data.shape) = 3
    /\ pc = "raised" /\ err = ReorderError

(***************************************************************************)
(* Properties of the long-form path.                                       *)
(***************************************************************************)
IsLong == ~IsWide
\* x and y after the column lookup of lines 144-148.
RX == IF args.data.kind = "frame" THEN Resolve(args.data, args.x) ELSE args.x
RY == IF args.data.kind = "frame" THEN Resolve(args.data, args.y) ELSE args.y
\* v is a text label that names no column of data.
Unresolved(v) == IsString(v) /\ ~(args.data.kind = "frame" /\ InSeq(v.name, args.data.names))
AnyUnresolved == \E v \in {args.x, args.y, args.hue, args.units} : Unresolved(v)
\* establish_variables returned (estimate_statistic may have run since).
Established == self.attrs # {}

\* The same number of groups and, group by group, of elements.
SameShape(a, b) ==
    /\ Len(a) = Len(b)
    /\ \A i \in DOMAIN a : Len(a[i]) = Len(b[i])

\* C1: after establish_variables returns, plot_hues and plot_units (when
\* not None) have as many groups as plot_data and, in every group, as many
\* elements.
C1_AsStated ==
    Established =>
        /\ ~self.plot_hues.isNone => SameShape(self.plot_hues.list, self.plot_data)
        /\ ~self.plot_units.isNone => SameShape(self.plot_units.list, self.plot_data)

\* The roles of lines 191-194.
ValsOf == IF self.orient = "v" THEN RY.vals ELSE RX.vals
GroupsOf == IF self.orient = "v" THEN RX.vals ELSE RY.vals
\* The rows of vals whose group key is g.
RowsOf(g) == {i \in DOMAIN ValsOf : i <= Len(GroupsOf) /\ GroupsOf[i] = g}
\* The k-th smallest element of a set of row numbers.
Kth(S, k) == CHOOSE i \in S : Cardinality({j \in S : j < i}) = k - 1

\* C2: in long-form mode with x and y present, group p of plot_data is
\* exactly the rows of vals keyed group_names[p], in their original
\* order; a row whose key is in group_names is in exactly one group, so a
\* row is dropped only when its key is not in group_names; with no order
\* given no keyed row is dropped.
C2_Partition ==
    (IsLong /\ ~IsNone(RX) /\ ~IsNone(RY) /\ Established) =>
        /\ Len(self.plot_data) = Len(self.group_names)
        /\ \A p \in DOMAIN self.plot_data :
              /\ Len(self.plot_data[p]) = Cardinality(RowsOf(self.group_names[p]))
              /\ \A k \in DOMAIN self.plot_data[p] :
                    self.plot_data[p][k] = ValsOf[Kth(RowsOf(self.group_names[p]), k)]
        /\ \A i \in DOMAIN ValsOf :
              (i <= Len(GroupsOf) /\ InSeq(GroupsOf[i], self.group_names))
                  => Cardinality({p \in DOMAIN self.group_names :
                                     i \in RowsOf(self.group_names[p])}) = 1
        /\ args.order.isNone =>
              \A i \in DOMAIN ValsOf :
                  i <= Len(GroupsOf) => InSeq(GroupsOf[i], self.group_names)

\* Three rows, the first and last in one group, the second dropped because
\* its key is not in the given order.
C2_Witness ==
    /\ IsLong /\ pc = "established" /\ self.orient = "v"
    /\ ~args.order.isNone
    /\ args.x.vals = <<"a", "b", "a">>
    /\ args.order.list = <<"a", "c">>
    /\ self.plot_data = << <<"1", "3">>, <<>> >>

\* y is non-numeric or categorical, as infer_orient is said to test it.
NonNumericY == is_categorical(RY) \/ ~CanCast(RY.vals)
\* The value of infer_orient as observed: the orient assigned, or the
\* no-numeric error.
OrientIs(o) == Established /\ self.orient = o
NoNumericRaised == pc = "raised" /\ ~Established /\ err = NoNumericError

\* C3: infer_orient returns the explicit orientation for a "v" or "h"
\* prefix; else vertical when x is absent; else horizontal when y is
\* absent; else, when y is non-numeric or categorical, it raises the
\* no-numeric error if the values of x are non-numeric and returns
\* horizontal if x is a plain numeric vector; else vertical.
C3_AsStated ==
    (IsLong /\ ~AnyUnresolved /\ (Established \/ NoNumericRaised)) =>
        IF StartsWith(args.orient, "v") THEN OrientIs("v")
        ELSE IF StartsWith(args.orient, "h") THEN OrientIs("h")
        ELSE IF IsNone(RX) THEN OrientIs("v")
        ELSE IF IsNone(RY) THEN OrientIs("h")
        ELSE IF NonNumericY THEN
            IF ~CanCast(RX.vals) THEN NoNumericRaised
            ELSE IF ~is_categorical(RX) THEN OrientIs("h")
            ELSE OrientIs("h") \/ NoNumericRaised
        ELSE OrientIs("v")

\* C7: in long-form mode, when x, y, hue or units is still a text label
\* after the column lookup (data None, or the label no column of data),
\* establish_variables raises the could-not-interpret error before
\* infer_orient or any grouping routine is entered, and assigns nothing.
C7_CouldNotInterpret ==
    (IsLong /\ AnyUnresolved /\ pc # "new") =>
        /\ pc = "raised"
        /\ err = InterpretError
        /\ calls = <<>>
        /\ self = NewPlotter

\* hue names no column of the table, while x and y are both text, for
\* which infer_orient would raise the no-numeric error.
C7_Witness ==
    /\ IsLong /\ pc = "raised" /\ err = InterpretError
    /\ args.data.kind = "frame"
    /\ args.hue = Label("zz")
    /\ args.x.kind = "list" /\ ~CanCast(args.x.vals)
    /\ args.y.kind = "list" /\ ~CanCast(args.y.vals)
    /\ args.orient = StrNone

(***************************************************************************)
(* Properties of estimate_statistic.                                       *)
(***************************************************************************)
Estimated == pc = "estimated"
\* estimate_statistic raised: establish_variables had assigned its values.
EstimateRaised == pc = "raised" /\ Established
HasHue == ~self.plot_hues.isNone
\* The plot specification meets the invariant of C1.
Aligned ==
    /\ ~self.plot_hues.isNone => SameShape(self.plot_hues.list, self.plot_data)
    /\ ~self.plot_units.isNone => SameShape(self.plot_units.list, self.plot_data)
\* Position k of group i survives the missing-value filter.
Present(i, k) ==
    /\ ~IsNull(self.plot_data[i][k])
    /\ ~self.plot_units.isNone => ~IsNull(self.plot_units.list[i][k])
\* The positions of group i that make up its filtered vector, and those of
\* the cell of group i and hue level j.
GroupKept(i) == {k \in DOMAIN self.plot_data[i] : Present(i, k)}
CellKept(i, j) ==
    {k \in DOMAIN self.plot_data[i] :
        Present(i, k) /\ self.plot_hues.list[i][k] = self.hue_names.list[j]}
Groups == DOMAIN self.plot_data
Levels == DOMAIN self.hue_names.list
\* The vectors the estimator was called with.
EstimatorCalls == {log[l].data : l \in {m \in DOMAIN log : log[m].fn = "estimator"}}
\* The vectors np.std or bootstrap was called with.
IntervalCalls == {log[l].data : l \in {m \in DOMAIN log : log[m].fn # "estimator"}}

\* C8: in estimate_statistic a group (or group/hue cell) whose filtered
\* vector is empty gets the statistic nan and the estimator is never
\* called with an empty vector; its confidence interval is (nan, nan)
\* when a CI is requested, and with ci = None confint has no entries.  The
\* wide-form call with data = None gives one empty group and the
\* statistic [nan].
C8_EmptyIsMissing ==
    /\ (Estimated /\ Aligned) =>
          /\ ~HasHue => \A i \in Groups :
                GroupKept(i) = {} =>
                    /\ self.statistic[i] = NaN
                    /\ est.ci # "None" => self.confint[i] = NaNPair
          /\ HasHue => \A i \in Groups : \A j \in Levels :
                CellKept(i, j) = {} =>
                    /\ self.statistic[i][j] = NaN
                    /\ est.ci # "None" => self.confint[i][j] = NaNPair
          /\ est.ci = "None" =>
                IF HasHue THEN \A i \in Groups : self.confint[i] = <<>>
                ELSE self.confint = <<>>
          /\ <<>> \notin EstimatorCalls
    /\ (args = WideNone /\ pc # "new") =>
          /\ self.plot_data = << <<>> >>
          /\ pc # "raised"
          /\ Estimated => self.statistic = <<NaN>> /\ log = <<>>

\* With hue levels and an interval requested: a group that has rows but
\* none left in one cell after filtering, next to a cell with a value.
C8_Witness ==
    /\ Estimated /\ Aligned /\ HasHue /\ est.ci = "95"
    /\ \E i \in Groups : \E j, k \in Levels :
          /\ self.plot_data[i] # <<>>
          /\ CellKept(i, j) = {}
          /\ self.statistic[i][j] = NaN
          /\ self.confint[i][j] = NaNPair
          /\ self.statistic[i][k] # NaN

\* The interval estimate_statistic is to store for a filtered vector of n
\* elements when a CI is requested.
IntervalFor(n) ==
    IF n < 2 THEN NaNPair ELSE IF est.ci = "sd" THEN SdBand ELSE BootBand

\* C9: a confidence interval is computed (np.std band or bootstrap) only
\* when a CI is requested and the filtered vector has at least 2
\* elements; a filtered vector of exactly one element gives the statistic
\* estimator(vector), which is that element, and, a CI being requested,
\* the interval (nan, nan); and on numeric data that meets the invariant
\* of C1 estimate_statistic never raises, whatever groups or hue subsets
\* are empty or short.
C9_IntervalNeedsTwo ==
    /\ (Estimated /\ Aligned) =>
          /\ ~HasHue => \A i \in Groups :
                /\ est.ci # "None" =>
                      self.confint[i] = IntervalFor(Cardinality(GroupKept(i)))
                /\ \A k \in GroupKept(i) :
                      GroupKept(i) = {k} => self.statistic[i] = self.plot_data[i][k]
          /\ HasHue => \A i \in Groups : \A j \in Levels :
                /\ est.ci # "None" =>
                      self.confint[i][j] = IntervalFor(Cardinality(CellKept(i, j)))
                /\ \A k \in CellKept(i, j) :
                      CellKept(i, j) = {k} => self.statistic[i][j] = self.plot_data[i][k]
          /\ \A v \in IntervalCalls : Len(v) >= 2 /\ est.ci # "None"
          /\ \A l \in DOMAIN log :
                /\ log[l].fn = "np.std" => est.ci = "sd"
                /\ log[l].fn = "bootstrap" => est.ci = "95"
    /\ (Established /\ Aligned /\ AllFloat(self.plot_data)) => pc # "raised"

\* One run with a cell of two points (interval computed), a cell of one
\* point (statistic, no interval) and an empty cell.
C9_Witness ==
    /\ Estimated /\ Aligned /\ HasHue /\ est.ci = "sd"
    /\ \E i1, i2, i3 \in Groups : \E j1, j2, j3 \in Levels :
          /\ Cardinality(CellKept(i1, j1)) = 2
          /\ self.confint[i1][j1] = SdBand
          /\ Cardinality(CellKept(i2, j2)) = 1
          /\ self.statistic[i2][j2] # NaN
          /\ self.confint[i2][j2] = NaNPair
          /\ CellKept(i3, j3) = {}

\* The rows of the call's vectors that belong to group g and hue level h
\* and have a value (and a unit, when units are given).
InputRows(g, h) ==
    {r \in DOMAIN args.y.vals :
        /\ args.x.vals[r] = g
        /\ args.hue.vals[r] = h
        /\ ~IsNull(args.y.vals[r])
        /\ ~IsNone(args.units) => ~IsNull(args.units.vals[r])}
\* The estimator's value on those rows: the largest or smallest value.
Best(R) ==
    CHOOSE r \in R : \A q \in R :
        IF est.estimator = "amax"
        THEN NumVal(args.y.vals[q]) <= NumVal(args.y.vals[r])
        ELSE NumVal(args.y.vals[q]) >= NumVal(args.y.vals[r])
\* x, y, hue and units are vectors of one length, x the group keys.
SameLengthCall ==
    /\ IsLong /\ args.data.kind = "None" /\ self.orient = "v"
    /\ ~IsNone(args.x) /\ ~IsNone(args.y) /\ ~IsNone(args.hue)
    /\ Len(args.x.vals) = Len(args.y.vals)
    /\ Len(args.hue.vals) = Len(args.y.vals)
    /\ ~IsNone(args.units) => Len(args.units.vals) = Len(args.y.vals)

\* C10: with hue levels, statistic has one row per entry of group_names
\* and one column per entry of hue_names, in their orders: entry [i][j] is
\* the estimator's value on the rows of group group_names[i] and hue level
\* hue_names[j], or nan when no such row has a value; with a CI requested
\* confint has the same shape, and a cell whose hue level does not occur
\* in its group holds nan with the interval (nan, nan).
C10_HueMatrix ==
    (Estimated /\ HasHue) =>
        /\ Len(self.statistic) = Len(self.group_names)
        /\ \A i \in DOMAIN self.statistic :
              Len(self.statistic[i]) = Len(self.hue_names.list)
        /\ Len(self.confint) = Len(self.group_names)
        /\ \A i \in DOMAIN self.confint :
              Len(self.confint[i]) =
                  IF est.ci = "None" THEN 0 ELSE Len(self.hue_names.list)
        /\ SameLengthCall =>
              \A i \in DOMAIN self.group_names : \A j \in Levels :
                  LET R == InputRows(self.group_names[i], self.hue_names.list[j])
                  IN  /\ self.statistic[i][j] =
                            IF R = {} THEN NaN ELSE args.y.vals[Best(R)]
                      /\ (est.ci # "None"
                          /\ ~\E r \in DOMAIN args.x.vals :
                                 /\ args.x.vals[r] = self.group_names[i]
                                 /\ args.hue.vals[r] = self.hue_names.list[j])
                         => self.confint[i][j] = NaNPair

\* Two groups and two hue levels in a given hue_order, one level absent
\* from one group, and a group of the order with no rows at all.
C10_Witness ==
    /\ Estimated /\ HasHue /\ SameLengthCall /\ est.ci = "95"
    /\ self.group_names = <<"b", "c", "a">>
    /\ self.hue_names.list = <<"n", "k", "m">>
    /\ self.statistic[1][1] # NaN
    /\ self.statistic[1][3] = NaN
    /\ self.statistic[3][3] # NaN
    /\ self.confint[2] = <<NaNPair, NaNPair, NaNPair>>

(***************************************************************************)
(* Properties of calls made one after another.                             *)
(***************************************************************************)
\* The PlotSpec a first call with arguments a assigns to a new plotter.
FirstCall(a) == establish_variables(a)

\* Whatever calls came before, on this plotter or another: a call that
\* returned has assigned every PlotSpec attribute the value a first call
\* with its arguments assigns, and a call that raised in
\* establish_variables has left the plotter as it found it.
FreshPlotSpec ==
    /\ pc \in {"established", "estimated"} =>
          /\ FirstCall(args).raised = "None"
          /\ PlotSpecAttrs \subseteq self.attrs
          /\ \A f \in PlotSpecAttrs : self[f] = FirstCall(args)[f]
    /\ (pc = "raised" /\ FirstCall(args).raised # "None") => self = before.self
\* A step of establish_variables or estimate_statistic leaves data, order,
\* hue_order and the other arguments of the caller as they were.
InputsKept == pc' \in {"established", "estimated", "raised"} => args' = args

RawCall ==
    /\ IsWide /\ IsNone(args.hue) /\ args.order.isNone
    /\ args.data.kind \in {"array", "list"}
\* The number of dimensions of data: len(data.shape), a list being 1-D.
NDim(data) == IF data.kind = "array" THEN Len(data.shape) ELSE 1
\* A 1-D input with at least one element.
NonEmpty(data) ==
    IF data.kind = "array" THEN data.shape[1] > 0 ELSE data.items # <<>>
\* Every cell of every group passes float().
AllCastable(groups) == \A i \in DOMAIN groups : CanCast(groups[i])

\* C12: for a wide-form array or list and no order, a 1-D input whose
\* elements are scalars (as np.isscalar tells of the first) becomes a
\* single group; a 1-D input of non-scalar elements becomes one group per
\* element; a 2-D array becomes one group per column, or one flattened
\* group when it has one row or one column; an array of more than 2
\* dimensions raises the dimensions error; numeric input of at most 2
\* dimensions always returns, and group_names is then
\* 0..len(plot_data)-1.
C12_RawShapes ==
    (RawCall /\ pc # "new") =>
        LET d == args.data
        IN  /\ NDim(d) > 2 => EstablishRaised /\ err = DimError
            /\ Returned => self.group_names = Range(Len(self.plot_data))
            /\ (NDim(d) = 1 /\ NonEmpty(d) /\ isscalar(d)) =>
                  /\ CanCast(d.items[1]) => Returned
                  /\ Returned => self.plot_data = <<AsFloatVec(d.items[1])>>
            /\ (NDim(d) = 1 /\ NonEmpty(d) /\ ~isscalar(d)) =>
                  /\ AllCastable(ElementsOf(d)) => Returned
                  /\ Returned =>
                        /\ Len(self.plot_data) = Len(ElementsOf(d))
                        /\ \A i \in DOMAIN self.plot_data :
                              self.plot_data[i] = AsFloatVec(ElementsOf(d)[i])
            /\ NDim(d) = 2 =>
                  /\ AllCastable(d.items) => Returned
                  /\ Returned =>
                        IF d.shape[1] = 1 \/ d.shape[2] = 1
                        THEN self.plot_data = <<AsFloatVec(Concat(d.items))>>
                        ELSE /\ Len(self.plot_data) = d.shape[2]
                             /\ \A i \in 1..d.shape[2] :
                                   /\ Len(self.plot_data[i]) = d.shape[1]
                                   /\ \A r \in 1..d.shape[1] :
                                         self.plot_data[i][r] = d.items[r][i]

\* A 2-by-2 array whose rows differ from its columns, split by column.
C12_Witness ==
    /\ RawCall /\ pc = "established"
    /\ args.data.kind = "array" /\ args.data.shape = <<2, 2>>
    /\ args.data.items = << <<"1", "2">>, <<"1", "2">> >>
    /\ self.plot_data = << <<"1", "1">>, <<"2", "2">> >>
    /\ self.group_names = <<0, 1>>

(***************************************************************************)
(* Properties of the long-form path with a single variable.                *)
(***************************************************************************)
\* A long-form call in which, after the column lookup, exactly one of x
\* and y is there and nothing is left a text label.
SingleCall == IsLong /\ (IsNone(RX) \/ IsNone(RY)) /\ ~AnyUnresolved
\* The one vector of a single-variable call.
SingleVals == IF IsNone(RX) THEN RY.vals ELSE RX.vals

\* C13: in long-form mode with exactly one of x and y present,
\* establish_variables returns whatever hue and units were supplied, with
\* plot_hues, hue_names, hue_title and plot_units all None, group_names
\* the empty list and plot_data holding exactly the one vector, so
\* len(plot_data) = 1 while len(group_names) = 0; estimate_statistic then
\* takes the ungrouped path and saves a single statistic entry (with a CI
\* requested, a single interval), and does so without raising when the
\* vector is numeric.
C13_SingleVariable ==
    (SingleCall /\ pc # "new") =>
        /\ Established
        /\ self.plot_hues.isNone /\ self.hue_names.isNone
        /\ self.hue_title = "None" /\ self.plot_units.isNone
        /\ self.group_names = <<>> /\ self.group_label = "None"
        /\ self.plot_data = <<SingleVals>>
        /\ Len(self.plot_data) # Len(self.group_names)
        /\ Estimated =>
              /\ Len(self.statistic) = 1
              /\ self.statistic[1] \in Numerals \cup {NaN}
              /\ Len(self.confint) = IF est.ci = "None" THEN 0 ELSE 1
              /\ \A l \in DOMAIN log : log[l].data = SingleVals
        /\ (\A k \in DOMAIN SingleVals : SingleVals[k] \in Numerals) => pc # "raised"

\* Only x is given, a numeric Series, together with hue and units vectors;
\* the statistic has one entry.
C13_Witness ==
    /\ SingleCall /\ Estimated /\ est.ci = "sd"
    /\ IsNone(args.y) /\ IsSeries(args.x)
    /\ args.hue.kind = "list" /\ args.units.kind = "list"
    /\ self.plot_hues.isNone /\ self.plot_units.isNone
    /\ Len(self.statistic) = 1 /\ self.statistic[1] \in Numerals
    /\ self.confint = <<SdBand>>

====
